---- MODULE Spec2Model ----
(***************************************************************************)
(* Model of the durable trade workflow of bottrader2026:                   *)
(*   src/DoTradeTimer/durable_do_trade.py                                  *)
(* DoTradeStarter starts DoTradeOrchestrator (the signal fan-out), which   *)
(* starts one TradeExecutionOrchestrator (the trade lifecycle) per signal. *)
(* The activities act on the exchange (positions, open orders), on the     *)
(* OrderBook table and on CoinInfoTable.                                   *)
(*                                                                         *)
(* Time is counted in minutes from 00:00 of day EpochDay of a month of     *)
(* MonthLen days.                                                          *)
(***************************************************************************)
EXTENDS Integers, Sequences, FiniteSets, Bags, TLC

\* ------------------------------------------------------------------ bounds
MaxInst == 2        \* trade lifecycle instances started over the whole run
MaxRuns == 2        \* runs of DoTradeStarter
MaxRedeliver == 1   \* activity executions whose completion is lost
MaxFills == 2       \* entry orders the exchange fills

\* --------------------------------------------------------- program constants
max_number_of_attempts == 3
first_retry_interval_in_milliseconds == 5000
DEFAULT_LEVERAGE == 5

\* Time 0 is 00:00 of day Calendar.epochDay of a month of Calendar.monthLen
\* days: the last day but one.
Calendar == [monthLen |-> 30, epochDay |-> 29]

Symbols == {"BTC", "ETH"}
Directions == {"LONG", "SHORT"}
\* Prices are in tenths: the signals carry the price 100.0.
MarketPrices == {989, 990, 1000, 1010, 1011}

\* The latest FourHour row of a symbol as MonitorStatusActivity reads it:
\* no row at all, a row whose Zscore is NULL, or a Zscore (times 100).
ZValues == {-250, -200, -100, -25, 0, 25, 100, 200, 250}
FourHourRows(zs) ==
    {[exists |-> FALSE, null |-> FALSE, z |-> 0],
     [exists |-> TRUE, null |-> TRUE, z |-> 0]}
    \cup {[exists |-> TRUE, null |-> FALSE, z |-> v] : v \in zs}

ZRows == FourHourRows(ZValues)

\* First run of DoTradeStarter: 08:10 of the last day but one, or 16:10 of the
\* last day of the month.
StartTimes == {8 * 60 + 10, 1440 + 16 * 60 + 10}

\* ------------------------------------------------------------- calendar
HourOf(t) == (t % 1440) \div 60
DayOfMonth(t) == ((Calendar.epochDay - 1 + (t \div 1440)) % Calendar.monthLen) + 1
Midnight(t) == (t \div 1440) * 1440

\* now.replace(day=now.day+1, ...) raises ValueError when the month has no
\* such day (lines 95-97).
NextCheckRaises(now) ==
    LET next_hour == ((HourOf(now) \div 4) + 1) * 4
    IN  next_hour >= 24 /\ DayOfMonth(now) + 1 > Calendar.monthLen

\* The wake time of the monitoring loop (lines 94-99).
NextCheck(now) ==
    LET next_hour == ((HourOf(now) \div 4) + 1) * 4
    IN  IF next_hour >= 24
        THEN Midnight(now) + 1440 + 15
        ELSE Midnight(now) + next_hour * 60 + 15

\* The thresholds taken as inclusive.
ZExitInclusive(direction, z) ==
    IF direction = "LONG"
    THEN IF z <= -200 THEN "Level2"
         ELSE IF z >= -25 THEN "Level0" ELSE "None"
    ELSE IF z >= 200 THEN "Level2"
         ELSE IF z <= 25 THEN "Level0" ELSE "None"

\* The z-score exit of one wake (lines 113-118); "None" when no branch assigns.
ZExit(direction, z) ==
    IF direction = "LONG"
    THEN IF z < -200 THEN "Level2"
         ELSE IF z > -25 THEN "Level0" ELSE "None"
    ELSE IF z > 200 THEN "Level2"
         ELSE IF z < 25 THEN "Level0" ELSE "None"


\* ------------------------------------------------ TradeExecutionOrchestrator
NoTrade ==
    [order_placed |-> FALSE, order_db_id |-> 0, reason |-> "", p_prec |-> 0,
     q_prec |-> 0, target_price |-> 0, stop_loss |-> 0]

\* A trade lifecycle instance as DoTradeOrchestrator starts it (line 55): it
\* awaits its first call, PrepareTradeActivity (line 66).
NewChild(signal, run) ==
    [signal |-> signal, run |-> run, status |-> "Running", result |-> "",
     pc |-> "PrepareTradeActivity", attempt |-> 1, backoff |-> 0,
     fire_at |-> 0, alert |-> "none",
     trade_info |-> NoTrade, exit_type |-> "None", start_time |-> 0,
     fills |-> <<>>, wakes |-> 0, error |-> "",
     scheduled |-> {"PrepareTradeActivity"}]

\* The instance schedules an operation and suspends on it.
Await(c, op, fire_at) ==
    [c EXCEPT !.pc = op, !.attempt = 1, !.backoff = 0, !.fire_at = fire_at,
              !.scheduled = @ \cup {op}]

\* return <result> (lines 69, 83, 137).
Return(c, result) ==
    [c EXCEPT !.status = "Completed", !.result = result, !.pc = "Done",
              !.attempt = 1, !.backoff = 0, !.fire_at = 0]

\* An exception leaves the orchestrator function: none of its yields is inside
\* a try block (lines 61-137).
Raise(c, error) ==
    [c EXCEPT !.status = "Failed", !.pc = "Done", !.error = error,
              !.attempt = 1, !.backoff = 0, !.fire_at = 0]

\* Top of the monitoring loop (lines 92-101).
MonitorSuspend(c, now) ==
    IF NextCheckRaises(now)
    THEN Raise(c, "ValueError")
    ELSE Await(c, "MonitorTimer", NextCheck(now))

\* A resolved exit going to the report without the explicit close.
MonitorOpenNoClose(c, status, now) ==
    IF status.z_null
    THEN Raise(c, "TypeError")
    ELSE LET zexit == ZExit(c.signal.TradeOrderPriceDirection, status.zscore)
             elapsed == now - c.start_time
             exit_type == IF zexit = "None" /\ elapsed >= 12 * 60
                          THEN "TimeExit" ELSE zexit
         IN  IF exit_type # "None"
             THEN Await([c EXCEPT !.exit_type = exit_type],
                        "UpdateOrderBookFinalActivity", 0)
             ELSE MonitorSuspend(c, now)

\* The time exit checked before the z-score exits.
MonitorOpenTimeFirst(c, status, now) ==
    IF status.z_null
    THEN Raise(c, "TypeError")
    ELSE LET zexit == ZExit(c.signal.TradeOrderPriceDirection, status.zscore)
             elapsed == now - c.start_time
             exit_type == IF elapsed >= 12 * 60 THEN "TimeExit" ELSE zexit
         IN  IF exit_type # "None"
             THEN Await([c EXCEPT !.exit_type = exit_type],
                        "ClosePositionActivity", 0)
             ELSE MonitorSuspend(c, now)

\* Lines 111-127, for a status whose is_open is true.
MonitorOpen(c, status, now) ==
    IF status.z_null
    THEN Raise(c, "TypeError")      \* None < -2.0 raises TypeError
    ELSE LET zexit == ZExit(c.signal.TradeOrderPriceDirection, status.zscore)
             elapsed == now - c.start_time
             exit_type == IF zexit = "None" /\ elapsed >= 12 * 60
                          THEN "TimeExit" ELSE zexit
         IN  IF exit_type # "None"
             THEN Await([c EXCEPT !.exit_type = exit_type],
                        "ClosePositionActivity", 0)
             ELSE MonitorSuspend(c, now)

\* The orchestrator function resumed at time now with the value val of the
\* operation it awaits (lines 61-137).
OrchResume(c, val, now) ==
    CASE c.pc = "PrepareTradeActivity" ->
            IF ~val.order_placed
            THEN Return([c EXCEPT !.trade_info = val], "Trade skipped")
            ELSE Await([c EXCEPT !.trade_info = val], "Timer1", now + 3)
      [] c.pc = "Timer1" -> Await(c, "CheckPositionActivity1", 0)
      [] c.pc = "CheckPositionActivity1" ->
            IF val
            THEN Await([c EXCEPT !.fills = Append(@, val)],
                       "FinalizeTradeEntryActivity", 0)
            ELSE Await([c EXCEPT !.fills = Append(@, val)], "Timer2", now + 3)
      [] c.pc = "Timer2" -> Await(c, "CheckPositionActivity2", 0)
      [] c.pc = "CheckPositionActivity2" ->
            IF val
            THEN Await([c EXCEPT !.fills = Append(@, val)],
                       "FinalizeTradeEntryActivity", 0)
            ELSE Await([c EXCEPT !.fills = Append(@, val)],
                       "CancelTradeActivity", 0)
      [] c.pc = "CancelTradeActivity" -> Return(c, "Entry timed out")
      [] c.pc = "FinalizeTradeEntryActivity" ->
            MonitorSuspend([c EXCEPT !.start_time = now], now)
      [] c.pc = "MonitorTimer" ->
            Await([c EXCEPT !.wakes = @ + 1], "MonitorStatusActivity", 0)
      [] c.pc = "MonitorStatusActivity" ->
            IF ~val.is_open
            THEN Await(c, "DetectTPSLExitActivity", 0)
            ELSE MonitorOpen(c, val, now)
      [] c.pc = "DetectTPSLExitActivity" ->
            Await([c EXCEPT !.exit_type = val],
                  "UpdateOrderBookFinalActivity", 0)
      [] c.pc = "ClosePositionActivity" ->
            Await(c, "UpdateOrderBookFinalActivity", 0)
      [] c.pc = "UpdateOrderBookFinalActivity" -> Return(c, "Completed")


\* --------------------------------------------------------------- activities
\* The world an activity acts on: env.position is positionAmt per symbol (in
\* entry orders filled, negative when short), env.orders the bag of open
\* orders, env.rows the OrderBook table (OrderID is the index) and
\* env.coinActive the IsActive column of CoinInfoTable, env.fourHour the
\* rows the latest FourHour row of a symbol may be, env.account the margin
\* type and leverage per symbol, env.balance the total margin balance,
\* env.mail the state of the alert sink and env.alert what became of the
\* notification the execution sent.
\*
\* An outcome of one execution of an activity: the value it returns (ret), or
\* raised = TRUE when an exception leaves it; fault tells whether an external
\* call raised during the execution: "none", "first" (its first external call
\* raised) or "later" (a later one did, after the calls before it succeeded);
\* env is the world it leaves.
Outcome(ret, raised, fault, env) ==
    [ret |-> ret, raised |-> raised, fault |-> fault, env |-> env]

\* An open order; qty is its quantity in thousandths of a coin, 0 for an order
\* with closePosition=True.
Order(symbol, type, owner) ==
    [symbol |-> symbol, type |-> type, owner |-> owner, qty |-> 0]

PlaceOrder(env, o) == [env EXCEPT !.orders = @ (+) SetToBag({o})]

\* futures_cancel_all_open_orders(symbol=symbol)
CancelAllOpenOrders(env, symbol) ==
    [env EXCEPT !.orders =
        [o \in {x \in DOMAIN env.orders : x.symbol # symbol} |-> env.orders[o]]]

InsertRow(env, symbol, creator, quantity) ==
    [env EXCEPT !.rows = Append(@, [CoinSymbol |-> symbol, Status |-> "Attempted",
                                    ExitType |-> "None", creator |-> creator,
                                    Quantity |-> quantity])]

\* The update keyed by the symbol of the row instead of its OrderID.
UpdateStatusBySymbol(env, id, status) ==
    [env EXCEPT !.rows = [n \in DOMAIN env.rows |->
        IF env.rows[n].CoinSymbol = env.rows[id].CoinSymbol
        THEN [env.rows[n] EXCEPT !.Status = status]
        ELSE env.rows[n]]]

\* UPDATE OrderBook SET Status = ? WHERE OrderID = ? (lines 237, 245).
UpdateStatus(env, id, status) == [env EXCEPT !.rows[id].Status = status]

\* return {'order_placed': False, 'reason': ...} (lines 158, 169, 180, 217).
Skipped(reason) ==
    [order_placed |-> FALSE, order_db_id |-> 0, reason |-> reason, p_prec |-> 0,
     q_prec |-> 0, target_price |-> 0, stop_loss |-> 0]

\* The slippage bound taken as inclusive.
SlippageCheckInclusive(direction, signal_price, m_price) ==
    \/ direction = "LONG" /\ (m_price - signal_price) * 100 <= -signal_price
    \/ direction = "SHORT" /\ (m_price - signal_price) * 100 >= signal_price

\* Lines 176-180.
SlippageCheckFails(direction, signal_price, m_price) ==
    \/ direction = "LONG" /\ (m_price - signal_price) * 100 < -signal_price
    \/ direction = "SHORT" /\ (m_price - signal_price) * 100 > signal_price

\* What the alert sink does with a message: it delivers it, fails to, or the
\* configuration Email_<config_key> suppresses the category.
MailStates == {"up", "down", "suppressed"}

Delivery(mail) ==
    CASE mail = "suppressed" -> "suppressed"
      [] mail = "down" -> "failed"
      [] OTHER -> "sent"

\* A sender that lets the delivery error through to its caller.
send_email_alert_propagates(mail) ==
    [raised |-> mail = "down", delivery |-> Delivery(mail)]

\* send_email_alert (email_utils.py lines 10-41): returns at line 21 when the
\* category is suppressed; an exception of the send is logged at line 41.
send_email_alert(mail) == [raised |-> FALSE, delivery |-> Delivery(mail)]

\* The activity's last statements: the notification, then the return of ret
\* (lines 216-217, 238, 246, 302-303).
Notified(ret, fault, env) ==
    LET sent == send_email_alert(env.mail)
    IN  Outcome(ret, sent.raised, fault, [env EXCEPT !.alert = sent.delivery])

\* except Exception (lines 214-217): the exception is reported to the
\* SystemError category and returned as a skip.
Caught(env, fault) == Notified(Skipped("error"), fault, env)

\* The account as the exchange has it before the program touches the symbol,
\* the margin balance of the wallet and TRADE_ALLOCATION_PCT in percent.
ExchangeDefault == [marginType |-> "CROSSED", leverage |-> 20]

Wallet == [totalMarginBalance |-> 504, allocation_pct |-> 10]

\* CoinInfoTable.PricePrecision and QuantityPrecision, or (2, 2) (line 187).
CoinInfo == [PricePrecision |-> 2, QuantityPrecision |-> 2]

RECURSIVE Pow10(_)
Pow10(n) == IF n = 0 THEN 1 ELSE 10 * Pow10(n - 1)

\* qty of line 192, in thousandths of a coin.
HalfQuantity(env, signal_price) ==
    (env.balance * Wallet.allocation_pct * DEFAULT_LEVERAGE * 1000)
        \div (100 * signal_price * 2)

\* "{:0.{}f}".format(qty, q_prec) (line 203): qty rounded to q_prec decimals,
\* in thousandths.
QuantityString(qty, q_prec) ==
    LET unit == Pow10(3 - q_prec)
    IN  ((qty + unit \div 2) \div unit) * unit

\* The entry order of lines 204 and 206.
LimitOrder(c, i, env) ==
    [Order(c.signal.CoinSymbol, "LIMIT", i) EXCEPT
        !.qty = QuantityString(HalfQuantity(env, c.signal.CurrentPrice),
                               CoinInfo.QuantityPrecision)]

\* PrepareTradeActivity from the ticker on (lines 175-213), the ticker price
\* being m_price: the slippage check, the leverage, the OrderBook row, the two
\* entry orders.
AfterTicker(c, i, env, m_price) ==
    LET symbol == c.signal.CoinSymbol
        direction == c.signal.TradeOrderPriceDirection
        qty == HalfQuantity(env, c.signal.CurrentPrice)
        leveraged == [env EXCEPT !.account[symbol].leverage = DEFAULT_LEVERAGE]
        withRow == InsertRow(leveraged, symbol, i, qty * 2)
        db_id == Len(env.rows) + 1
        order1 == PlaceOrder(withRow, LimitOrder(c, i, env))
        order2 == PlaceOrder(order1, LimitOrder(c, i, env))
    IN  IF SlippageCheckFails(direction, c.signal.CurrentPrice, m_price)
        THEN {Outcome(Skipped("Slippage Check Failed"), FALSE, "none", env)}
        ELSE { Caught(env, "later"),                  \* line 184, 185 or 189 raises
               Caught(leveraged, "later"),            \* line 190 or 194 raises
               Caught(withRow, "later"),              \* line 204 raises
               Caught(order1, "later"),               \* line 206 raises
               Outcome([order_placed |-> TRUE, order_db_id |-> db_id,
                        reason |-> "", p_prec |-> CoinInfo.PricePrecision,
                        q_prec |-> CoinInfo.QuantityPrecision,
                        target_price |-> c.signal.TargetPrice,
                        stop_loss |-> c.signal.StopLossPrice],
                       FALSE, "none", order2) }

\* What futures_change_margin_type (line 162) reports: the margin type was
\* changed, or a BinanceAPIException: "No need to change margin type", the
\* code -1121 of an invalid symbol, or another error.
MarginReports(env, symbol) ==
    {"error", "invalid_symbol"}
    \cup (IF env.account[symbol].marginType = "ISOLATED"
          THEN {"no_need"} ELSE {"changed"})

\* PrepareTradeActivity from the report of line 162 on (lines 163-213).
AfterMarginType(c, i, env, report) ==
    LET symbol == c.signal.CoinSymbol
        isolated == IF report = "changed"
                    THEN [env EXCEPT !.account[symbol].marginType = "ISOLATED"]
                    ELSE env
    IN  IF report = "invalid_symbol"
        THEN { Caught(env, "later"),                   \* line 167 or 168 raises
               Outcome(Skipped("Delisted symbol"), FALSE, "none",
                       [env EXCEPT !.coinActive[symbol] = FALSE]) }
        ELSE { Caught(isolated, "later") }             \* line 174 raises
             \cup
             UNION {AfterTicker(c, i, isolated, m_price) :
                        m_price \in MarketPrices}

\* The activity without the position check of lines 155-158.
PrepareWithoutPositionCheck(c, i, env) ==
    {Caught(env, "first")}
    \cup UNION {AfterMarginType(c, i, env, report) :
                  report \in MarginReports(env, c.signal.CoinSymbol)}

\* PrepareTradeActivity (lines 149-217), executed for instance i. Every
\* exception is caught at line 214 and returned as order_placed False.
PrepareTradeActivity(c, i, env) ==
    LET symbol == c.signal.CoinSymbol
    IN  {Caught(env, "first")}                         \* line 155 or 162 raises
        \cup
        (IF env.position[symbol] # 0
         THEN {Outcome(Skipped("Position already open"), FALSE, "none", env)}
         ELSE UNION {AfterMarginType(c, i, env, report) :
                        report \in MarginReports(env, symbol)})

\* CheckPositionActivity (lines 220-224).
CheckPositionActivity(c, i, env) ==
    { Outcome(FALSE, FALSE, "first", env),                 \* except: return False
      Outcome(env.position[c.signal.CoinSymbol] # 0, FALSE, "none", env) }

\* The activity without the stop-loss order of line 234.
FinalizeWithoutStopLoss(c, i, env) ==
    LET symbol == c.signal.CoinSymbol
        tp == PlaceOrder(env, Order(symbol, "TAKE_PROFIT_MARKET", i))
    IN  { Outcome(TRUE, TRUE, "first", env),
          Outcome(TRUE, TRUE, "later", tp),
          Notified(TRUE, "none",
                   UpdateStatus(tp, c.trade_info.order_db_id, "Filled")) }

\* FinalizeTradeEntryActivity (lines 227-238).
FinalizeTradeEntryActivity(c, i, env) ==
    LET symbol == c.signal.CoinSymbol
        tp == PlaceOrder(env, Order(symbol, "TAKE_PROFIT_MARKET", i))
        sl == PlaceOrder(tp, Order(symbol, "STOP_MARKET", i))
    IN  { Outcome(TRUE, TRUE, "first", env),               \* line 233 raises
          Outcome(TRUE, TRUE, "later", tp),                  \* line 234 raises
          Outcome(TRUE, TRUE, "later", sl),                  \* line 236 raises
          Notified(TRUE, "none",
                   UpdateStatus(sl, c.trade_info.order_db_id, "Filled")) }

\* CancelTradeActivity (lines 241-246).
CancelTradeActivity(c, i, env) ==
    LET cancelled == CancelAllOpenOrders(env, c.signal.CoinSymbol)
    IN  { Outcome(TRUE, TRUE, "first", env),               \* line 243 raises
          Outcome(TRUE, TRUE, "later", cancelled),         \* line 244 raises
          Notified(TRUE, "none",
                   UpdateStatus(cancelled, c.trade_info.order_db_id, "Cancelled")) }

\* MonitorStatusActivity (lines 249-259).
MonitorStatusActivity(c, i, env) ==
    { Outcome([is_open |-> FALSE, zscore |-> 0, z_null |-> FALSE],
              TRUE, "first", env) }                        \* line 250 or 256 raises
    \cup
    { Outcome([is_open |-> env.position[c.signal.CoinSymbol] # 0,
               zscore |-> IF row.exists THEN row.z ELSE 0,
               z_null |-> row.exists /\ row.null], FALSE, "none", env) :
          row \in env.fourHour }

\* DetectTPSLExitActivity (lines 262-269).
DetectTPSLExitActivity(c, i, env) ==
    { Outcome("TP", TRUE, "first", env) }                   \* line 265 raises
    \cup { Outcome(t, FALSE, "none", env) : t \in {"TP", "SL", "TP/SL"} }

\* ClosePositionActivity (lines 272-280).
ClosePositionActivity(c, i, env) ==
    LET symbol == c.signal.CoinSymbol
        cancelled == CancelAllOpenOrders(env, symbol)
    IN  { Outcome(TRUE, TRUE, "first", env),               \* line 274 raises
          Outcome(TRUE, TRUE, "later", cancelled),         \* line 275 or 279 raises
          Outcome(TRUE, FALSE, "none",
                  [cancelled EXCEPT !.position[symbol] = 0]) }

\* UpdateOrderBookFinalActivity (lines 283-303).
UpdateOrderBookFinalActivity(c, i, env) ==
    LET id == c.trade_info.order_db_id
    IN  { Outcome(TRUE, TRUE, "first", env),               \* line 289 or 295 raises
          Notified(TRUE, "none",
                   [env EXCEPT !.rows[id].Status = "Profit/Loss",
                               !.rows[id].ExitType = c.exit_type]) }

Timers == {"Timer1", "Timer2", "MonitorTimer"}

\* The executions of the activity instance i awaits.
Execute(c, i, env) ==
    CASE c.pc = "PrepareTradeActivity" -> PrepareTradeActivity(c, i, env)
      [] c.pc \in {"CheckPositionActivity1", "CheckPositionActivity2"} ->
            CheckPositionActivity(c, i, env)
      [] c.pc = "FinalizeTradeEntryActivity" -> FinalizeTradeEntryActivity(c, i, env)
      [] c.pc = "CancelTradeActivity" -> CancelTradeActivity(c, i, env)
      [] c.pc = "MonitorStatusActivity" -> MonitorStatusActivity(c, i, env)
      [] c.pc = "DetectTPSLExitActivity" -> DetectTPSLExitActivity(c, i, env)
      [] c.pc = "ClosePositionActivity" -> ClosePositionActivity(c, i, env)
      [] c.pc = "UpdateOrderBookFinalActivity" ->
            UpdateOrderBookFinalActivity(c, i, env)
      [] OTHER -> {}


\* ------------------------------------------------------------- retry policy
\* No wait before a retry.
NoRetryInterval(attempt) == 0

\* default_retry_options (lines 24-27): the wait, in milliseconds, before the
\* attempt that follows failed attempt number attempt; the backoff coefficient
\* is left at 1, so every wait is the first retry interval.
RetryInterval(attempt) == first_retry_interval_in_milliseconds

\* call_activity_with_retry after an attempt of the call x awaits has failed:
\* another attempt after the retry interval, while attempts are left.
RetryLater(x) ==
    [x EXCEPT !.attempt = @ + 1, !.backoff = RetryInterval(x.attempt)]

\* -------------------------------------------------------------------- state
VARIABLES
    clock,        \* the time, in minutes
    starterAt,    \* when the timer trigger of DoTradeStarter fires next
    runs,         \* the DoTradeOrchestrator instances, in start order
    children,     \* the TradeExecutionOrchestrator instances, in start order
    position,     \* exchange: positionAmt per symbol
    orders,       \* exchange: the bag of open orders
    rows,         \* the OrderBook table
    coinActive,   \* CoinInfoTable.IsActive per symbol
    account,      \* exchange: margin type and leverage per symbol
    outage,       \* the outage of the external services: before, during, after
    redelivered,  \* activity executions whose completion was lost so far
    capacity,     \* trade lifecycle instances that may still be started
    fills,        \* entry orders filled so far
    scope,        \* what the environment does: the signal lists it serves
                  \* (scope.feed), the starter runs it makes (scope.maxRuns)
                  \* and the states of the alert sink (scope.mail)
    hist,         \* replay: the event history of one trade lifecycle instance
    wall,         \* replay: the wall clock, in minutes
    inflight,     \* replay: the calls a worker is executing
    crashed       \* replay: the calls that were in flight when a worker crashed

vars == <<clock, starterAt, runs, children, position, orders, rows, coinActive, account,
          outage, redelivered, capacity, fills, scope,
          hist, wall, inflight, crashed>>

workloadVars == <<clock, starterAt, runs, children, position, orders, rows,
                  coinActive, account, outage, redelivered, capacity, fills, scope>>

replayVars == <<hist, wall, inflight, crashed>>

Env == [position |-> position, orders |-> orders, rows |-> rows,
        coinActive |-> coinActive, account |-> account,
        balance |-> Wallet.totalMarginBalance, fourHour |-> ZRows,
        mail |-> "up", alert |-> "none"]

\* The same world, the alert sink being in state mail.
EnvWith(mail) == [Env EXCEPT !.mail = mail]

SetEnv(env) ==
    /\ position' = env.position
    /\ orders' = env.orders
    /\ rows' = env.rows
    /\ coinActive' = env.coinActive
    /\ account' = env.account

Min(S) == CHOOSE x \in S : \A y \in S : x <= y

\* The signal lists GetActiveTradingSignals serves.
Signal(symbol, direction) ==
    [CoinSymbol |-> symbol, TradeOrderPriceDirection |-> direction,
     CurrentPrice |-> 1000,
     TargetPrice |-> IF direction = "LONG" THEN 1050 ELSE 950,
     StopLossPrice |-> IF direction = "LONG" THEN 970 ELSE 1030]

SoloFeed == {<<>>, <<Signal("BTC", "LONG")>>, <<Signal("BTC", "SHORT")>>}

DuoFeed ==
    {<<>>, <<Signal("BTC", "LONG")>>,
     <<Signal("BTC", "LONG"), Signal("BTC", "LONG")>>,
     <<Signal("BTC", "LONG"), Signal("BTC", "SHORT")>>,
     <<Signal("BTC", "LONG"), Signal("ETH", "SHORT")>>}

InitScope(starts, cap, sc, outage0, redelivered0) ==
    /\ clock \in starts
    /\ starterAt = clock
    /\ runs = <<>>
    /\ children = <<>>
    /\ position = [s \in Symbols |-> 0]
    /\ orders = EmptyBag
    /\ rows = <<>>
    /\ coinActive = [s \in Symbols |-> TRUE]
    /\ account = [s \in Symbols |-> ExchangeDefault]
    /\ outage = outage0
    /\ redelivered = redelivered0
    /\ capacity = cap
    /\ fills = 0
    /\ scope = sc

ReplayIdle == hist = <<>> /\ wall = 0 /\ inflight = {} /\ crashed = {}

\* One starter run and one trade lifecycle, with an outage of the external
\* services and a lost completion.
Init ==
    /\ InitScope(StartTimes, 1, [feed |-> SoloFeed, maxRuns |-> 1, mail |-> MailStates], "before", 0)
    /\ ReplayIdle

\* Up to MaxRuns starter runs and MaxInst trade lifecycles, the first run at
\* 16:10 of the last day of the month, every external call succeeding.
InitConcurrent ==
    /\ InitScope({1440 + 16 * 60 + 10}, MaxInst,
                 [feed |-> DuoFeed, maxRuns |-> MaxRuns, mail |-> {"up"}], "after", MaxRedeliver)
    /\ ReplayIdle

\* ------------------------------------------------------------------ starter
\* DoTradeStarter (lines 36-42): the timer trigger fires every four hours and
\* starts a DoTradeOrchestrator, which awaits GetSignalsActivity (line 47).
DoTradeStarter ==
    /\ Len(runs) < scope.maxRuns
    /\ clock >= starterAt
    /\ runs' = Append(runs, [status |-> "Running", result |-> "", count |-> 0,
                             pc |-> "GetSignalsActivity", attempt |-> 1,
                             backoff |-> 0,
                             error |-> "",
                             signals |-> <<>>, kids |-> <<>>])
    /\ starterAt' = starterAt + 4 * 60
    /\ UNCHANGED <<clock, children, position, orders, rows, coinActive, account,
                   outage, redelivered, capacity, fills, scope>>

\* ------------------------------------------------------ DoTradeOrchestrator
\* The fan-out without the test of line 49.
FanOutUnconditional(r, signals) ==
    /\ runs' = [runs EXCEPT ![r].pc = "task_all", ![r].signals = signals,
                            ![r].kids = [n \in 1..Len(signals) |->
                                            Len(children) + n]]
    /\ children' = children \o
           [n \in 1..Len(signals) |-> NewChild(signals[n], r)]

\* Lines 47-55 resumed with the signals GetSignalsActivity returned.
FanOut(r, signals) ==
    IF signals = <<>>
    THEN /\ runs' = [runs EXCEPT ![r].status = "Completed",
                                 ![r].result = "No signals found.",
                                 ![r].pc = "Done"]
         /\ UNCHANGED children
    ELSE /\ runs' = [runs EXCEPT ![r].pc = "task_all", ![r].signals = signals,
                                 ![r].kids = [n \in 1..Len(signals) |->
                                                 Len(children) + n]]
         /\ children' = children \o
                [n \in 1..Len(signals) |-> NewChild(signals[n], r)]

\* GetSignalsActivity (lines 142-146) returns the rows of
\* GetActiveTradingSignals.
GetSignalsReturns(r) ==
    /\ runs[r].status = "Running"
    /\ runs[r].pc = "GetSignalsActivity"
    /\ runs[r].backoff = 0
    /\ outage # "during"
    /\ \E signals \in scope.feed :
          /\ Len(signals) <= capacity
          /\ FanOut(r, signals)
          /\ capacity' = capacity - Len(signals)
    /\ UNCHANGED <<clock, starterAt, position, orders, rows, coinActive, account,
                   outage, redelivered, fills, scope>>

\* GetSignalsActivity raises (the database is unreachable): retried until
\* max_number_of_attempts, then the exception is raised at line 47.
GetSignalsRaises(r) ==
    /\ runs[r].status = "Running"
    /\ runs[r].pc = "GetSignalsActivity"
    /\ runs[r].backoff = 0
    /\ outage # "after"
    /\ outage' = "during"
    /\ runs' = IF runs[r].attempt < max_number_of_attempts
               THEN [runs EXCEPT ![r] = RetryLater(@)]
               ELSE [runs EXCEPT ![r].status = "Failed", ![r].pc = "Done",
                                 ![r].error = "ActivityFailed"]
    /\ UNCHANGED <<clock, starterAt, children, position, orders, rows,
                   coinActive, account, redelivered, capacity, fills, scope>>

Kids(r) == {runs[r].kids[n] : n \in 1..Len(runs[r].kids)}

\* yield context.task_all(tasks) (line 57) when every child has completed:
\* line 58 returns the count.
JoinCompletes(r) ==
    /\ runs[r].status = "Running"
    /\ runs[r].pc = "task_all"
    /\ \A i \in Kids(r) : children[i].status = "Completed"
    /\ runs' = [runs EXCEPT ![r].status = "Completed",
                            ![r].result = "Processed signals.",
                            ![r].count = Len(runs[r].signals),
                            ![r].pc = "Done"]
    /\ UNCHANGED <<clock, starterAt, children, position, orders, rows,
                   coinActive, account, outage, redelivered, capacity, fills, scope>>

\* task_all raises at line 57 the exception of a child that failed.
JoinRaises(r) ==
    /\ runs[r].status = "Running"
    /\ runs[r].pc = "task_all"
    /\ \E i \in Kids(r) : children[i].status = "Failed"
    /\ runs' = [runs EXCEPT ![r].status = "Failed", ![r].pc = "Done",
                            ![r].error = "SubOrchestrationFailed"]
    /\ UNCHANGED <<clock, starterAt, children, position, orders, rows,
                   coinActive, account, outage, redelivered, capacity, fills, scope>>

\* ---------------------------------------------- trade lifecycle instances
\* External calls raise only during one outage of the external services
\* (exchange, database), and every external call made during it raises.
Possible(o) ==
    CASE outage = "before" -> TRUE
      [] outage = "during" -> o.fault = "first"
      [] outage = "after" -> o.fault = "none"

OutageEnds ==
    /\ outage = "during"
    /\ outage' = "after"
    /\ UNCHANGED <<clock, starterAt, runs, children, position, orders, rows,
                   coinActive, account, redelivered, capacity, fills, scope>>

AwaitsActivity(c) == c.status = "Running" /\ c.pc \notin Timers

\* One execution of the activity instance i awaits, and what
\* call_activity_with_retry does with it: the value resumes the orchestrator;
\* an exception schedules another attempt, and the last attempt's exception is
\* raised in the orchestrator.
ActivityExecutes(i) ==
    /\ AwaitsActivity(children[i])
    /\ children[i].backoff = 0
    /\ \E mail \in scope.mail : \E o \in Execute(children[i], i, EnvWith(mail)) :
          /\ Possible(o)
          /\ outage' = IF o.fault = "none" THEN outage ELSE "during"
          /\ SetEnv(o.env)
          /\ children' =
                [children EXCEPT ![i] =
                    [(IF ~o.raised THEN OrchResume(@, o.ret, clock)
                      ELSE IF @.attempt < max_number_of_attempts
                           THEN RetryLater(@)
                           ELSE Raise(@, "ActivityFailed"))
                     EXCEPT !.alert = o.env.alert]]
    /\ UNCHANGED <<clock, starterAt, runs, redelivered, capacity, fills, scope>>

\* An execution that returned, but whose completion was never recorded: the
\* activity is dispatched again (activities run at least once).
ActivityRedelivered(i) ==
    /\ AwaitsActivity(children[i])
    /\ children[i].backoff = 0
    /\ redelivered < MaxRedeliver
    /\ redelivered' = redelivered + 1
    /\ \E o \in Execute(children[i], i, Env) :
          /\ ~o.raised
          /\ Possible(o)
          /\ outage' = IF o.fault = "none" THEN outage ELSE "during"
          /\ SetEnv(o.env)
    /\ UNCHANGED <<clock, starterAt, runs, children, capacity, fills, scope>>

\* The retry interval of the call instance i awaits has passed.
RetryIntervalElapses(i) ==
    /\ children[i].backoff > 0
    /\ children' = [children EXCEPT ![i].backoff = 0]
    /\ UNCHANGED <<clock, starterAt, runs, position, orders, rows, coinActive, account,
                   outage, redelivered, capacity, fills, scope>>

\* The retry interval of GetSignalsActivity of run r has passed.
SignalsRetryIntervalElapses(r) ==
    /\ runs[r].backoff > 0
    /\ runs' = [runs EXCEPT ![r].backoff = 0]
    /\ UNCHANGED <<clock, starterAt, children, position, orders, rows,
                   coinActive, account, outage, redelivered, capacity, fills, scope>>

\* A timer of instance i fires (lines 73, 78, 101).
\* A timer resuming its instance whether or not it is due.
TimerFiresEarly(i) ==
    /\ children[i].status = "Running"
    /\ children[i].pc \in Timers
    /\ children' = [children EXCEPT ![i] = OrchResume(@, TRUE, clock)]
    /\ UNCHANGED <<clock, starterAt, runs, position, orders, rows, coinActive, account,
                   outage, redelivered, capacity, fills, scope>>

TimerFires(i) ==
    /\ children[i].status = "Running"
    /\ children[i].pc \in Timers
    /\ children[i].fire_at <= clock
    /\ children' = [children EXCEPT ![i] = OrchResume(@, TRUE, clock)]
    /\ UNCHANGED <<clock, starterAt, runs, position, orders, rows, coinActive, account,
                   outage, redelivered, capacity, fills, scope>>

\* ----------------------------------------------------------------- exchange
OwnerSign(o) ==
    IF children[o.owner].signal.TradeOrderPriceDirection = "LONG" THEN 1 ELSE -1

\* An entry limit order fills.
EntryFills(o) ==
    /\ o.type = "LIMIT"
    /\ fills < MaxFills
    /\ fills' = fills + 1
    /\ orders' = orders (-) SetToBag({o})
    /\ position' = [position EXCEPT ![o.symbol] = @ + OwnerSign(o)]
    /\ UNCHANGED <<clock, starterAt, runs, children, rows, coinActive, account,
                   outage, redelivered, capacity, scope>>

\* A take-profit or stop-loss order (closePosition=True) triggers and closes
\* the position it is on the closing side of.
ExitTriggers(o) ==
    /\ o.type \in {"TAKE_PROFIT_MARKET", "STOP_MARKET"}
    /\ position[o.symbol] * OwnerSign(o) > 0
    /\ orders' = orders (-) SetToBag({o})
    /\ position' = [position EXCEPT ![o.symbol] = 0]
    /\ UNCHANGED <<clock, starterAt, runs, children, rows, coinActive, account,
                   outage, redelivered, capacity, fills, scope>>

\* --------------------------------------------------------------------- time
PendingTimes ==
    {children[i].fire_at : i \in {j \in 1..Len(children) :
        children[j].status = "Running" /\ children[j].pc \in Timers}}
    \cup (IF Len(runs) < scope.maxRuns THEN {starterAt} ELSE {})

\* Time passes up to the next timer, once nothing is ready to run.
Tick ==
    /\ \A i \in 1..Len(children) : ~AwaitsActivity(children[i])
    /\ \A r \in 1..Len(runs) : runs[r].pc \in {"task_all", "Done"}
    /\ PendingTimes # {}
    /\ Min(PendingTimes) > clock
    /\ clock' = Min(PendingTimes)
    /\ UNCHANGED <<starterAt, runs, children, position, orders, rows,
                   coinActive, account, outage, redelivered, capacity, fills, scope>>

Next ==
    \/ DoTradeStarter /\ UNCHANGED replayVars
    \/ \E r \in 1..Len(runs) : GetSignalsReturns(r) /\ UNCHANGED replayVars
    \/ \E r \in 1..Len(runs) : GetSignalsRaises(r) /\ UNCHANGED replayVars
    \/ \E r \in 1..Len(runs) : JoinCompletes(r) /\ UNCHANGED replayVars
    \/ \E r \in 1..Len(runs) : JoinRaises(r) /\ UNCHANGED replayVars
    \/ \E i \in 1..Len(children) : ActivityExecutes(i) /\ UNCHANGED replayVars
    \/ \E i \in 1..Len(children) : ActivityRedelivered(i) /\ UNCHANGED replayVars
    \/ \E i \in 1..Len(children) : RetryIntervalElapses(i) /\ UNCHANGED replayVars
    \/ \E r \in 1..Len(runs) :
          SignalsRetryIntervalElapses(r) /\ UNCHANGED replayVars
    \/ \E i \in 1..Len(children) : TimerFires(i) /\ UNCHANGED replayVars
    \/ \E o \in BagToSet(orders) : EntryFills(o) /\ UNCHANGED replayVars
    \/ \E o \in BagToSet(orders) : ExitTriggers(o) /\ UNCHANGED replayVars
    \/ OutageEnds /\ UNCHANGED replayVars
    \/ Tick /\ UNCHANGED replayVars

Spec == Init /\ [][Next]_vars

NextConcurrent ==
    \/ DoTradeStarter /\ UNCHANGED replayVars
    \/ \E r \in 1..Len(runs) : GetSignalsReturns(r) /\ UNCHANGED replayVars
    \/ \E r \in 1..Len(runs) : JoinCompletes(r) /\ UNCHANGED replayVars
    \/ \E r \in 1..Len(runs) : JoinRaises(r) /\ UNCHANGED replayVars
    \/ \E i \in 1..Len(children) : ActivityExecutes(i) /\ UNCHANGED replayVars
    \/ \E i \in 1..Len(children) : TimerFires(i) /\ UNCHANGED replayVars
    \/ \E o \in BagToSet(orders) : EntryFills(o) /\ UNCHANGED replayVars
    \/ \E o \in BagToSet(orders) : ExitTriggers(o) /\ UNCHANGED replayVars
    \/ Tick /\ UNCHANGED replayVars

SpecConcurrent == InitConcurrent /\ [][NextConcurrent]_vars


\* ------------------------------------------------------------------- replay
\* One trade lifecycle instance run by replay of its event history: the
\* orchestrator function is re-run from its start on every resumption, and its
\* n-th yield is matched against the n-th scheduled event of the history.
\*
\* An event is [type, id, op, fire_at, val, failed, ts]: type "Scheduled"
\* (the id-th call was scheduled: an activity, or a timer due at fire_at),
\* "Resolved" (its completion, failure or firing, with the value val) or
\* "Completed" (the instance ended, val its result); ts is its timestamp.
MaxCrashes == 1

ReplaySignal == Signal("BTC", "LONG")

Event(type, id, op, fire_at, val, failed, ts) ==
    [type |-> type, id |-> id, op |-> op, fire_at |-> fire_at, val |-> val,
     failed |-> failed, ts |-> ts]

EventsOf(h, type, id) ==
    {n \in 1..Len(h) : h[n].type = type /\ h[n].id = id}

\* The clock of the worker that runs the orchestrator function.
UtcNow(event_ts, wall_clock) == wall_clock

\* context.current_utc_datetime (durable_do_trade.py lines 72, 77, 89, 94 and
\* 121): the timestamp of the event being replayed.
CurrentUtcDatetime(event_ts, wall_clock) == event_ts

\* The command of the call at which orchestrator state c is suspended.
Command(c) == [op |-> c.pc, fire_at |-> c.fire_at]

\* The orchestrator function run up to its id-th call: c is its state there,
\* cmds the commands of its calls so far, emit whether the id-th call has no
\* scheduled event yet.
Suspended(c, id, cmds) ==
    [c |-> c, id |-> id,
     cmds |-> IF c.pc = "Done" THEN cmds ELSE Append(cmds, Command(c)),
     emit |-> c.pc # "Done"]

\* A function that does not wait for the timers it creates: it goes on to its
\* next call as soon as the timer is scheduled.
ReplayEventNoWait(st, e, w) ==
    IF st.c.pc = "Done" \/ e.id # st.id
    THEN st
    ELSE IF e.type = "Scheduled"
    THEN IF Command(st.c) = [op |-> e.op, fire_at |-> e.fire_at]
         THEN IF e.op \in {"Timer1", "Timer2", "MonitorTimer"}
              THEN Suspended(OrchResume(st.c, TRUE, CurrentUtcDatetime(e.ts, w)),
                             st.id + 1, st.cmds)
              ELSE [st EXCEPT !.emit = FALSE]
         ELSE st
    ELSE IF e.type = "Resolved" /\ ~st.emit
    THEN Suspended(IF e.failed THEN Raise(st.c, "ActivityFailed")
                   ELSE OrchResume(st.c, e.val, CurrentUtcDatetime(e.ts, w)),
                   st.id + 1, st.cmds)
    ELSE st

\* One event e of the history met by the run st, on a worker whose clock reads
\* w: the scheduled event of the current call marks it as scheduled, and its
\* terminal event resumes the function with the recorded value or failure.
ReplayEvent(st, e, w) ==
    IF st.c.pc = "Done" \/ e.id # st.id
    THEN st
    ELSE IF e.type = "Scheduled"
    THEN IF Command(st.c) = [op |-> e.op, fire_at |-> e.fire_at]
         THEN [st EXCEPT !.emit = FALSE]
         ELSE st
    ELSE IF e.type = "Resolved" /\ ~st.emit
    THEN Suspended(IF e.failed THEN Raise(st.c, "ActivityFailed")
                   ELSE OrchResume(st.c, e.val, CurrentUtcDatetime(e.ts, w)),
                   st.id + 1, st.cmds)
    ELSE st

\* The orchestrator function run against history h from its n-th event on.
RECURSIVE ReplayFrom(_, _, _, _)
ReplayFrom(st, n, h, w) ==
    IF n > Len(h) THEN st
    ELSE ReplayFrom(ReplayEvent(st, h[n], w), n + 1, h, w)

Replay(h, w) ==
    ReplayFrom(Suspended(NewChild(ReplaySignal, 0), 1, <<>>), 1, h, w)

\* The worlds the activity of call c.pc may find.
ReplayWorlds(c) ==
    {[position |-> [s \in Symbols |-> p], orders |-> EmptyBag,
      rows |-> IF c.pc = "PrepareTradeActivity" THEN <<>>
               ELSE <<[CoinSymbol |-> "BTC", Status |-> "Attempted",
                       ExitType |-> "None", creator |-> 1, Quantity |-> 0]>>,
      coinActive |-> [s \in Symbols |-> TRUE],
      account |-> [s \in Symbols |-> ExchangeDefault],
      balance |-> Wallet.totalMarginBalance,
      fourHour |-> FourHourRows({-250, -100, 0, 100, 250}),
      mail |-> "up", alert |-> "none"] : p \in {0, 1}}

\* The calls that are scheduled and not resolved.
IdsOf(type) == {hist[n].id : n \in {m \in 1..Len(hist) : hist[m].type = type}}

PendingIds == IdsOf("Scheduled") \ IdsOf("Resolved")

IsPending(id) == id \in PendingIds

PendingOp(id) == hist[Min(EventsOf(hist, "Scheduled", id))]

InitReplay ==
    /\ InitScope({0}, 0, [feed |-> {}, maxRuns |-> 0, mail |-> {"up"}], "after", 0)
    /\ hist = <<>>
    /\ wall \in StartTimes
    /\ inflight = {}
    /\ crashed = {}

\* A worker resumes the instance: it replays the history, appends the
\* scheduled event of a call that has none, or the completion of the instance.
Resume ==
    LET r == Replay(hist, wall)
    IN  /\ \/ /\ r.emit
              /\ hist' = Append(hist,
                     Event("Scheduled", r.id, r.cmds[Len(r.cmds)].op,
                           r.cmds[Len(r.cmds)].fire_at, FALSE, FALSE, wall))
           \/ /\ r.c.pc = "Done"
              /\ \A n \in 1..Len(hist) : hist[n].type # "Completed"
              /\ hist' = Append(hist,
                     Event("Completed", 0, "", 0, r.c.result,
                           r.c.status = "Failed", wall))
        /\ UNCHANGED <<wall, inflight, crashed>>

\* A worker takes the pending activity of call id.
Dispatch(id) ==
    /\ IsPending(id)
    /\ PendingOp(id).op \notin Timers
    /\ id \notin inflight
    /\ inflight' = inflight \cup {id}
    /\ UNCHANGED <<hist, wall, crashed>>

\* The worker executing call id reports what the activity returned, or that it
\* failed for good.
Completes(id) ==
    /\ id \in inflight
    /\ IsPending(id)
    /\ LET c == Replay(hist, wall).c
       IN  \E w \in ReplayWorlds(c) : \E o \in Execute(c, 1, w) :
              hist' = Append(hist,
                  Event("Resolved", id, c.pc, 0, o.ret, o.raised, wall))
    /\ inflight' = inflight \ {id}
    /\ UNCHANGED <<wall, crashed>>

\* The worker executing call id crashes: the execution is lost, and the
\* pending call is found again in the history.
Crash(id) ==
    /\ id \in inflight
    /\ Cardinality(crashed) < MaxCrashes
    /\ inflight' = inflight \ {id}
    /\ crashed' = crashed \cup {id}
    /\ UNCHANGED <<hist, wall>>

\* The timer of call id fires.
TimerFired(id) ==
    /\ IsPending(id)
    /\ PendingOp(id).op \in Timers
    /\ PendingOp(id).fire_at <= wall
    /\ hist' = Append(hist,
           Event("Resolved", id, PendingOp(id).op, PendingOp(id).fire_at,
                 TRUE, FALSE, wall))
    /\ UNCHANGED <<wall, inflight, crashed>>

\* Time passes up to the pending timer.
WallTick ==
    /\ \E id \in PendingIds :
          /\ IsPending(id)
          /\ PendingOp(id).op \in Timers
          /\ PendingOp(id).fire_at > wall
          /\ wall' = PendingOp(id).fire_at
    /\ UNCHANGED <<hist, inflight, crashed>>

NextReplay ==
    \/ Resume /\ UNCHANGED workloadVars
    \/ \E id \in PendingIds : Dispatch(id) /\ UNCHANGED workloadVars
    \/ \E id \in PendingIds : Completes(id) /\ UNCHANGED workloadVars
    \/ \E id \in PendingIds : Crash(id) /\ UNCHANGED workloadVars
    \/ \E id \in PendingIds : TimerFired(id) /\ UNCHANGED workloadVars
    \/ WallTick /\ UNCHANGED workloadVars

SpecReplay == InitReplay /\ [][NextReplay]_vars

\* ------------------------------------------------------------------- claims
Instances == 1..Len(children)

RunningFor(symbol) ==
    {i \in Instances : /\ children[i].status = "Running"
                       /\ children[i].signal.CoinSymbol = symbol}

\* C1: for every symbol, at every moment at most one trade lifecycle instance
\* with status Running exists, also when one signal list or two successive
\* starter runs name the same symbol.
C1_OneRunningPerSymbol ==
    \A symbol \in Symbols : Cardinality(RunningFor(symbol)) <= 1

\* C2: two lifecycle instances for the same symbol that both ran the
\* open-position check before any entry order filled never both place entry
\* orders.
C2_OnePlacementPerSymbol ==
    \A i, j \in Instances :
        /\ i # j
        /\ children[i].signal.CoinSymbol = children[j].signal.CoinSymbol
        /\ fills = 0
        => ~(children[i].trade_info.order_placed
             /\ children[j].trade_info.order_placed)

RowsOf(i) == {n \in 1..Len(rows) : rows[n].creator = i}

EntryOrder(i) == LimitOrder(children[i], i, Env)

\* C5: an order-placing activity executed again for the same call, after an
\* execution that placed its entry orders (none filled yet), places no further
\* orders and inserts no second Attempted row: an instance never has more than
\* its two entry orders open, nor more than one row.
C5_PrepareIsIdempotent ==
    \A i \in Instances :
        /\ CopiesIn(EntryOrder(i), orders) <= 2
        /\ Cardinality(RowsOf(i)) <= 1

Monitoring ==
    {"FinalizeTradeEntryActivity", "MonitorTimer", "MonitorStatusActivity",
     "DetectTPSLExitActivity", "ClosePositionActivity",
     "UpdateOrderBookFinalActivity"}

RowStatus(i) == rows[children[i].trade_info.order_db_id].Status

\* C6: when CheckPositionActivity returned false at both fill checks, the
\* lifecycle schedules CancelTradeActivity, never the finalize step nor any
\* monitoring activity, and ends with the order row Cancelled and the
\* entry-timed-out result.
C6_EntryTimeout ==
    \A i \in Instances :
        children[i].fills = <<FALSE, FALSE>> =>
            /\ "CancelTradeActivity" \in children[i].scheduled
            /\ children[i].scheduled \cap Monitoring = {}
            /\ children[i].pc = "Done" =>
                  /\ children[i].result = "Entry timed out"
                  /\ RowStatus(i) = "Cancelled"

\* C7: a trade lifecycle instance that has terminated has a result string, and
\* its order row carries the matching status: Cancelled after an entry
\* timeout, Profit/Loss after a completed trade, and no row created by a
\* skipped instance is left Attempted or Filled.
C7_TerminalRowStatus ==
    \A i \in Instances :
        children[i].pc = "Done" =>
            /\ children[i].result # ""
            /\ children[i].result = "Entry timed out" => RowStatus(i) = "Cancelled"
            /\ children[i].result = "Completed" => RowStatus(i) = "Profit/Loss"
            /\ children[i].result = "Trade skipped" =>
                  \A n \in RowsOf(i) : rows[n].Status \notin {"Attempted", "Filled"}

\* C8: an activity failing max_number_of_attempts times is delivered to the
\* workflow as a resolved result; the instance does not end in status Failed.
C8_ExhaustionDoesNotFail ==
    \A i \in Instances :
        children[i].error = "ActivityFailed" => children[i].status # "Failed"

\* C9: the fan-out over n signals starts exactly one child per signal, and
\* once it has ended it has completed, with every child terminated and the
\* count n as its result.
C9_FanOutJoin ==
    \A r \in 1..Len(runs) :
        /\ Len(runs[r].kids) = Len(runs[r].signals)
        /\ \A n \in 1..Len(runs[r].kids) :
              children[runs[r].kids[n]].signal = runs[r].signals[n]
        /\ (runs[r].pc = "Done" /\ runs[r].signals # <<>>) =>
              /\ runs[r].status = "Completed"
              /\ runs[r].count = Len(runs[r].signals)
              /\ \A i \in Kids(r) : children[i].pc = "Done"

\* C10: when GetSignalsActivity raises on every attempt, the fan-out completes
\* with a descriptive result and no child; it does not end in status Failed.
C10_SignalReadFailure ==
    \A r \in 1..Len(runs) :
        runs[r].error = "ActivityFailed" =>
            /\ runs[r].status = "Completed"
            /\ runs[r].result # ""
            /\ runs[r].kids = <<>>

\* Replay of the history by a worker whose clock reads w reproduces the
\* history: every scheduled event is the command the replay computes for its
\* call, and the recorded completion is the result the replay ends with.
Reproduces(w) ==
    LET r == Replay(hist, w)
    IN  /\ \A n \in 1..Len(hist) :
              hist[n].type = "Scheduled" =>
                  /\ hist[n].id <= Len(r.cmds)
                  /\ r.cmds[hist[n].id].op = hist[n].op
                  /\ r.cmds[hist[n].id].fire_at = hist[n].fire_at
        /\ \A n \in 1..Len(hist) :
              hist[n].type = "Completed" =>
                  /\ r.c.pc = "Done"
                  /\ r.c.result = hist[n].val
                  /\ (r.c.status = "Failed") = hist[n].failed

C4_ScheduledAtMostOnce ==
    \A id \in 1..Len(hist) :
        /\ Cardinality(EventsOf(hist, "Scheduled", id)) <= 1
        /\ Cardinality(EventsOf(hist, "Resolved", id)) <= 1
        /\ \A n \in EventsOf(hist, "Resolved", id) :
              \E m \in EventsOf(hist, "Scheduled", id) : m < n

\* A call whose worker crashed has been scheduled once and resolved once.
C4_Witness ==
    \E id \in crashed :
        /\ Cardinality(EventsOf(hist, "Scheduled", id)) = 1
        /\ Cardinality(EventsOf(hist, "Resolved", id)) = 1

\* C11: when the signal read returned an empty set, the fan-out has completed
\* with the result "No signals found." and has started no child (the fan-out
\* itself never creates a timer).
C11_EmptySignalSet ==
    \A r \in 1..Len(runs) :
        (/\ runs[r].pc # "GetSignalsActivity"
         /\ runs[r].error = ""
         /\ runs[r].signals = <<>>)
        => /\ runs[r].status = "Completed"
           /\ runs[r].result = "No signals found."
           /\ runs[r].kids = <<>>
           /\ \A i \in Instances : children[i].run # r

C11_Witness ==
    \E r \in 1..Len(runs) :
        runs[r].result = "No signals found." /\ children = <<>>

\* The statuses MonitorStatusActivity may return to instance i at a wake, with
\* the position open and a z-score.
OpenStatuses(i) ==
    {o.ret : o \in {x \in MonitorStatusActivity(children[i], i, Env) :
                       ~x.raised /\ x.ret.is_open /\ ~x.ret.z_null}}

AtWake(i) ==
    children[i].status = "Running" /\ children[i].pc = "MonitorStatusActivity"

\* The exit type instance i resolves at this wake, given the status.
Resolved(i, status) == OrchResume(children[i], status, clock).exit_type

Level2Holds(direction, z) ==
    (direction = "LONG" /\ z < -200) \/ (direction = "SHORT" /\ z > 200)

Level0Holds(direction, z) ==
    (direction = "LONG" /\ z > -25) \/ (direction = "SHORT" /\ z < 25)

\* C12: at any monitoring wake with the position open, direction LONG and
\* z < -2.0, the resolved exit type is Level2 even when 12 hours have elapsed
\* since the fill; TimeExit is resolved only when no z-score exit fired and at
\* least 12 hours have elapsed.
C12_ExitPriority ==
    \A i \in Instances : AtWake(i) =>
        \A status \in OpenStatuses(i) :
            LET direction == children[i].signal.TradeOrderPriceDirection
                z == status.zscore
            IN  /\ (direction = "LONG" /\ z < -200)
                      => Resolved(i, status) = "Level2"
                /\ Resolved(i, status) = "TimeExit"
                      => /\ ~Level2Holds(direction, z)
                         /\ ~Level0Holds(direction, z)
                         /\ clock - children[i].start_time >= 12 * 60

\* A LONG trade closed as Level2 at a wake 12 hours or more after its fill.
C12_Witness ==
    \E i \in Instances :
        /\ children[i].pc = "ClosePositionActivity"
        /\ children[i].exit_type = "Level2"
        /\ children[i].signal.TradeOrderPriceDirection = "LONG"
        /\ clock - children[i].start_time >= 12 * 60

\* C13: at a wake with the position open, for every z-score and direction the
\* z-score exit is Level2 exactly when the Level2 threshold holds, and Level0
\* exactly when it does not and the Level0 threshold holds; otherwise none (the
\* wake resolves no exit, or TimeExit).
C13_ZscoreExit ==
    \A i \in Instances : AtWake(i) =>
        \A status \in OpenStatuses(i) :
            LET direction == children[i].signal.TradeOrderPriceDirection
                z == status.zscore
            IN  /\ Resolved(i, status) = "Level2" <=> Level2Holds(direction, z)
                /\ Resolved(i, status) = "Level0" <=>
                      (~Level2Holds(direction, z) /\ Level0Holds(direction, z))
                /\ Resolved(i, status) \in {"Level2", "Level0", "TimeExit", "None"}

\* A SHORT trade closed as Level0.
C13_Witness ==
    \E i \in Instances :
        /\ children[i].pc = "ClosePositionActivity"
        /\ children[i].exit_type = "Level0"
        /\ children[i].signal.TradeOrderPriceDirection = "SHORT"

\* Instance i awaits PrepareTradeActivity with no position open on its symbol:
\* an execution goes on to the ticker.
AtPrepare(i) ==
    /\ children[i].status = "Running"
    /\ children[i].pc = "PrepareTradeActivity"
    /\ position[children[i].signal.CoinSymbol] = 0

\* The execution of PrepareTradeActivity o leaves the instance skipped, with
\* no order placed and no row inserted.
SkipsCleanly(i, o) ==
    /\ ~o.raised
    /\ ~o.ret.order_placed
    /\ o.env.orders = orders
    /\ o.env.rows = rows
    /\ OrchResume(children[i], o.ret, clock).result = "Trade skipped"

\* C14: PrepareTrade exits with Skipped, no order placed and no row inserted,
\* when the direction is LONG and (market - signal)/signal < -1%, or SHORT and
\* (market - signal)/signal > +1%; a difference of exactly 1% does not skip.
C14_SlippageRejection ==
    \A i \in Instances : AtPrepare(i) =>
        \A m \in MarketPrices :
            LET direction == children[i].signal.TradeOrderPriceDirection
                signal_price == children[i].signal.CurrentPrice
                diff100 == (m - signal_price) * 100
                outs == AfterTicker(children[i], i, Env, m)
            IN  /\ (\/ direction = "LONG" /\ diff100 < -signal_price
                    \/ direction = "SHORT" /\ diff100 > signal_price)
                   => \A o \in outs : SkipsCleanly(i, o)
                /\ (diff100 = signal_price \/ diff100 = -signal_price)
                   => /\ \A o \in outs : o.ret.reason # "Slippage Check Failed"
                      /\ \E o \in outs : o.ret.order_placed

\* A LONG instance skipped by the slippage check, no order and no row left.
C14_Witness ==
    \E i \in Instances :
        /\ children[i].result = "Trade skipped"
        /\ children[i].trade_info.reason = "Slippage Check Failed"
        /\ children[i].signal.TradeOrderPriceDirection = "LONG"
        /\ rows = <<>>
        /\ orders = EmptyBag

\* C15: PrepareTrade exits with Skipped whenever the market price differs from
\* the signal price by more than 1% in absolute value, for LONG and for SHORT.
C15_SlippageEitherWay ==
    \A i \in Instances : AtPrepare(i) =>
        \A m \in MarketPrices :
            LET signal_price == children[i].signal.CurrentPrice
                diff100 == (m - signal_price) * 100
            IN  (diff100 > signal_price \/ diff100 < -signal_price)
                => \A o \in AfterTicker(children[i], i, Env, m) :
                      ~o.ret.order_placed

\* The monitoring checks: minute 15 of the hours 0, 4, 8, 12, 16 and 20.
IsCheckTime(t) == t % (4 * 60) = 15

\* C16: a monitoring suspension wakes at the earliest check time strictly after
\* the time it was made at: no check time lies between the time of a pending
\* monitoring timer's creation and the time it is due.
C16_NextCheckIsEarliest ==
    \A i \in Instances :
        (children[i].status = "Running" /\ children[i].pc = "MonitorTimer")
        => /\ IsCheckTime(children[i].fire_at)
           /\ \A t \in (clock + 1)..(children[i].fire_at - 1) : ~IsCheckTime(t)

LastEvening(t) == DayOfMonth(t) = Calendar.monthLen /\ HourOf(t) >= 20

\* C17: a monitoring suspension made in hours 20-23 of the last day of the
\* month wakes at 00:15 of the first day of the next month, and the instance
\* stays Running: the date arithmetic raises no error.
C17_MonthRollover ==
    \A i \in Instances :
        /\ children[i].error # "ValueError"
        /\ (/\ children[i].pc = "MonitorTimer"
            /\ children[i].fire_at > clock
            /\ LastEvening(clock))
           => /\ children[i].status = "Running"
              /\ children[i].fire_at = Midnight(clock) + 1440 + 15

TPSL == {"TP", "SL", "TP/SL"}

LoopExits == {"Level2", "Level0", "TimeExit"}

\* The lifecycle of instance i has left the monitoring loop.
LeftLoop(c) ==
    c.pc \in {"DetectTPSLExitActivity", "ClosePositionActivity",
              "UpdateOrderBookFinalActivity"}

\* What holds of the exit of an instance in every state.
ExitInvariant(i) ==
    LET c == children[i]
    IN  /\ AtWake(i) =>
              \A o \in MonitorStatusActivity(c, i, Env) :
                  (~o.raised /\ ~o.ret.is_open)
                  => OrchResume(c, o.ret, clock).pc = "DetectTPSLExitActivity"
        /\ (c.status = "Running" /\ c.pc = "DetectTPSLExitActivity") =>
              \A o \in DetectTPSLExitActivity(c, i, Env) :
                  ~o.raised =>
                     /\ OrchResume(c, o.ret, clock).exit_type = o.ret
                     /\ OrchResume(c, o.ret, clock).pc =
                            "UpdateOrderBookFinalActivity"
        /\ "DetectTPSLExitActivity" \in c.scheduled =>
              /\ "ClosePositionActivity" \notin c.scheduled
              /\ c.exit_type \in TPSL \cup {"None"}
        /\ "ClosePositionActivity" \in c.scheduled =>
              /\ "DetectTPSLExitActivity" \notin c.scheduled
              /\ c.exit_type \in LoopExits
        /\ (c.pc = "UpdateOrderBookFinalActivity" /\ c.exit_type \in LoopExits)
              => "ClosePositionActivity" \in c.scheduled
        /\ (c.pc = "UpdateOrderBookFinalActivity" /\ c.exit_type \in TPSL)
              => "DetectTPSLExitActivity" \in c.scheduled

\* What holds of the exit of an instance in every step.
ExitStep(i) ==
    LET c == children[i]
        d == children'[i]
    IN  /\ LeftLoop(c) =>
              /\ d.wakes = c.wakes
              /\ d.pc \notin {"MonitorTimer", "MonitorStatusActivity"}
        /\ (d.pc = "ClosePositionActivity" /\ c.pc # "ClosePositionActivity")
              => "ClosePositionActivity" \notin c.scheduled

C19_GatewayErrorFailsAttempt ==
    \A i \in Instances : AwaitsActivity(children[i]) =>
        \A o \in Execute(children[i], i, Env) :
            (Possible(o) /\ o.fault # "none") => o.raised

StatusMoves ==
    {<<"Attempted", "Filled">>, <<"Attempted", "Cancelled">>,
     <<"Filled", "Profit/Loss">>}

RetryStep(x, y) ==
    /\ x.backoff > 0 => (y = x \/ y = [x EXCEPT !.backoff = 0])
    /\ (y.pc = x.pc /\ y.attempt # x.attempt)
          => /\ y.attempt = x.attempt + 1
             /\ x.attempt < 3
             /\ y.backoff = 5000
    /\ (y.error = "ActivityFailed" /\ x.error = "") => x.attempt = 3
    /\ y.pc \notin {x.pc, "Done", "task_all"} => (y.attempt = 1 /\ y.backoff = 0)

\* C21: each activity call is executed at most 3 times: after failed attempt
\* k another attempt is scheduled if and only if k < 3, it does not run before
\* 5000 ms have passed since the failure, and no attempt follows a success.
C21_RetryPolicy ==
    /\ [](/\ \A i \in Instances :
                children[i].attempt \in 1..3 /\ children[i].backoff \in {0, 5000}
          /\ \A r \in 1..Len(runs) :
                runs[r].attempt \in 1..3 /\ runs[r].backoff \in {0, 5000})
    /\ [][/\ \A i \in Instances : RetryStep(children[i], children'[i])
          /\ \A r \in 1..Len(runs) : RetryStep(runs[r], runs'[r])]_vars

\* The third attempt of a call is due, after two failures and two waits.
C21_Witness ==
    \E i \in Instances :
        /\ children[i].status = "Running"
        /\ children[i].attempt = 3
        /\ children[i].backoff = 0

\* What an execution did apart from the notification itself: its return
\* value or exception, and the exchange and database it left.
Effects(outs) ==
    {[ret |-> o.ret, raised |-> o.raised, position |-> o.env.position,
      orders |-> o.env.orders, rows |-> o.env.rows,
      coinActive |-> o.env.coinActive] : o \in outs}

Notifies(c) ==
    c.pc \in {"PrepareTradeActivity", "FinalizeTradeEntryActivity",
              "CancelTradeActivity", "UpdateOrderBookFinalActivity"}

\* C22: for every activity that notifies, its return value, the exchange calls
\* it made and the order-row updates it made are the same whether the
\* notification is delivered, fails or is suppressed for its category.
C22_NotificationNeverPropagates ==
    \A i \in Instances :
        (AwaitsActivity(children[i]) /\ Notifies(children[i])) =>
            \A mail \in MailStates :
                Effects(Execute(children[i], i, EnvWith(mail)))
                    = Effects(Execute(children[i], i, EnvWith("up")))

\* The entry was finalized, the row is Filled and the lifecycle monitors the
\* position, although the TradeEntry notification could not be delivered.
C22_Witness ==
    \E i \in Instances :
        /\ children[i].alert = "failed"
        /\ children[i].pc = "MonitorTimer"
        /\ RowStatus(i) = "Filled"

\* The execution o of an activity of instance i leaves the exchange and the
\* database as they were.
LeavesWorld(o) ==
    /\ o.env.position = position
    /\ o.env.orders = orders
    /\ o.env.rows = rows
    /\ o.env.coinActive = coinActive
    /\ o.env.account = account

\* C23: when an open position already exists for the symbol, PrepareTrade
\* exits with Skipped and changes nothing: no margin type or leverage, no
\* order, no order row; the lifecycle ends without a timer or another activity.
C23_PositionAlreadyOpen ==
    \A i \in Instances :
        (/\ children[i].status = "Running"
         /\ children[i].pc = "PrepareTradeActivity"
         /\ position[children[i].signal.CoinSymbol] # 0)
        => \A o \in Execute(children[i], i, Env) :
              LET after == OrchResume(children[i], o.ret, clock)
              IN  /\ ~o.raised
                  /\ ~o.ret.order_placed
                  /\ LeavesWorld(o)
                  /\ after.status = "Completed"
                  /\ after.result = "Trade skipped"
                  /\ after.scheduled = {"PrepareTradeActivity"}

\* A lifecycle that ended skipped because the position of its symbol was open.
C23_Witness ==
    \E i \in Instances :
        /\ children[i].status = "Completed"
        /\ children[i].result = "Trade skipped"
        /\ children[i].trade_info.reason = "Position already open"
        /\ children[i].scheduled = {"PrepareTradeActivity"}
        /\ position[children[i].signal.CoinSymbol] # 0
        /\ RowsOf(i) = {}

\* C24: when the margin-type change reports an invalid (delisted) symbol,
\* PrepareTrade deactivates the symbol in the registry, places no order and
\* inserts no row, is not retried, and the lifecycle ends Skipped; any other
\* margin-type error does not end the trade.
C24_DelistedSymbol ==
    \A i \in Instances : AtPrepare(i) =>
        LET symbol == children[i].signal.CoinSymbol
        IN  /\ \A o \in AfterMarginType(children[i], i, Env, "invalid_symbol") :
                  /\ SkipsCleanly(i, o)
                  /\ ~o.env.coinActive[symbol]
            /\ \A report \in MarginReports(Env, symbol) \ {"invalid_symbol"} :
                  /\ \E o \in AfterMarginType(children[i], i, Env, report) :
                        o.ret.order_placed
                  /\ \A o \in AfterMarginType(children[i], i, Env, report) :
                        o.env.coinActive = coinActive

\* C25: whenever PrepareTrade reports success, exactly two entry limit orders
\* were placed for the symbol, each for half of the computed total quantity,
\* exactly one order row with status Attempted and the total quantity was
\* inserted, and the result carries the price precision, the target and stop
\* prices and that row's id; whenever it reports Skipped, neither entry order
\* is live on the exchange.
C25_EntryOrdersAndRow ==
    \A i \in Instances : AtPrepare(i) =>
        \A o \in Execute(children[i], i, Env) :
            LET signal == children[i].signal
                total == 2 * HalfQuantity(Env, signal.CurrentPrice)
                entry == [symbol |-> signal.CoinSymbol, type |-> "LIMIT",
                          owner |-> i,
                          qty |-> QuantityString(total \div 2,
                                                 CoinInfo.QuantityPrecision)]
            IN  /\ ~o.raised
                /\ o.ret.order_placed =>
                      /\ o.env.orders = orders (+) SetToBag({entry}) (+) SetToBag({entry})
                      /\ Len(o.env.rows) = Len(rows) + 1
                      /\ SubSeq(o.env.rows, 1, Len(rows)) = rows
                      /\ o.env.rows[Len(rows) + 1].Status = "Attempted"
                      /\ o.env.rows[Len(rows) + 1].Quantity = total
                      /\ o.env.rows[Len(rows) + 1].CoinSymbol = signal.CoinSymbol
                      /\ o.ret.order_db_id = Len(rows) + 1
                      /\ o.ret.p_prec = CoinInfo.PricePrecision
                      /\ o.ret.target_price = signal.TargetPrice
                      /\ o.ret.stop_loss = signal.StopLossPrice
                /\ ~o.ret.order_placed => o.env.orders = orders

\* One step of the entry wait, x being the instance before it and y after it.
EntryWaitStep(x, y) ==
    /\ (y.pc \in {"Timer1", "Timer2"} /\ x.pc # y.pc) => y.fire_at = clock + 3
    /\ (y.pc = "CheckPositionActivity1" /\ x.pc # y.pc)
          => (x.pc = "Timer1" /\ x.fire_at <= clock)
    /\ (y.pc = "CheckPositionActivity2" /\ x.pc # y.pc)
          => (x.pc = "Timer2" /\ x.fire_at <= clock)
    /\ (y.pc = "Timer2" /\ x.pc # y.pc)
          => (x.pc = "CheckPositionActivity1" /\ y.fills = <<FALSE>>)
    /\ (x.pc = "CheckPositionActivity1" /\ x.pc # y.pc)
          => (y.pc = "Timer2" <=> y.fills = <<FALSE>>)

\* C26: the entry wait performs at most two fill checks, each scheduled only
\* after a timer set 3 minutes ahead of the orchestration time has fired; the
\* second timer and the second check are scheduled if and only if the first
\* check returned unfilled.
C26_EntryWait ==
    /\ [](\A i \in Instances :
            /\ Len(children[i].fills) <= 2
            /\ "Timer2" \in children[i].scheduled
                  <=> (children[i].fills # <<>> /\ ~children[i].fills[1])
            /\ "CheckPositionActivity2" \in children[i].scheduled
                  => "Timer2" \in children[i].scheduled
            /\ Len(children[i].fills) = 2
                  => "CheckPositionActivity2" \in children[i].scheduled)
    /\ [][\A i \in Instances : EntryWaitStep(children[i], children'[i])]_vars

\* The first check found the entry unfilled and the second found it filled.
C26_Witness ==
    \E i \in Instances :
        /\ children[i].fills = <<FALSE, TRUE>>
        /\ children[i].pc = "FinalizeTradeEntryActivity"

TakeProfit(i) == Order(children[i].signal.CoinSymbol, "TAKE_PROFIT_MARKET", i)
StopLoss(i) == Order(children[i].signal.CoinSymbol, "STOP_MARKET", i)

LastFill(c) == c.fills # <<>> /\ c.fills[Len(c.fills)]

\* C27: FinalizeTradeEntryActivity is scheduled only after a fill check returned
\* true; the execution that completes it has placed one take-profit and one
\* stop-loss close-position order for the symbol and set the order row to
\* Filled; the first monitoring timer is created only after it completed.
C27_FinalizeEntry ==
    /\ [](\A i \in Instances :
            /\ "FinalizeTradeEntryActivity" \in children[i].scheduled
                  => LastFill(children[i])
            /\ "MonitorTimer" \in children[i].scheduled
                  => /\ "FinalizeTradeEntryActivity" \in children[i].scheduled
                     /\ children[i].pc # "FinalizeTradeEntryActivity"
            /\ (children[i].status = "Running"
                /\ children[i].pc = "FinalizeTradeEntryActivity")
                  => \A o \in Execute(children[i], i, Env) : ~o.raised =>
                        /\ o.env.orders = orders (+) SetToBag({TakeProfit(i)})
                                                 (+) SetToBag({StopLoss(i)})
                        /\ o.env.rows[children[i].trade_info.order_db_id].Status
                              = "Filled")
    /\ [][\A i \in Instances :
            /\ (children'[i].pc = "FinalizeTradeEntryActivity"
                /\ children[i].pc # "FinalizeTradeEntryActivity")
                  => /\ children[i].pc \in {"CheckPositionActivity1",
                                            "CheckPositionActivity2"}
                     /\ LastFill(children'[i])
            /\ (children'[i].pc = "MonitorTimer"
                /\ "MonitorTimer" \notin children[i].scheduled)
                  => /\ children[i].pc = "FinalizeTradeEntryActivity"
                     /\ BagIn(TakeProfit(i), orders')
                     /\ BagIn(StopLoss(i), orders')
                     /\ rows'[children[i].trade_info.order_db_id].Status = "Filled"]_vars

\* The entry was finalized and the lifecycle waits for its first monitoring
\* wake, the take-profit and the stop-loss order open and the row Filled.
C27_Witness ==
    \E i \in Instances :
        /\ children[i].pc = "MonitorTimer"
        /\ children[i].wakes = 0
        /\ BagIn(TakeProfit(i), orders)
        /\ BagIn(StopLoss(i), orders)
        /\ RowStatus(i) = "Filled"

\* C28: a trade lifecycle instance never has more than one unresolved
\* scheduled operation (activity or timer): each one is scheduled only after
\* the previous one of the instance has resolved.
C28_OnePendingOperation ==
    /\ Cardinality(PendingIds) <= 1
    /\ \A n \in 1..Len(hist) :
          (hist[n].type = "Scheduled" /\ hist[n].id > 1) =>
              \E m \in 1..(n - 1) :
                  hist[m].type = "Resolved" /\ hist[m].id = hist[n].id - 1

\* The third operation of the instance (the first fill check) is pending, the
\* activity and the timer before it resolved.
C28_Witness ==
    /\ 3 \in PendingIds
    /\ PendingOp(3).op = "CheckPositionActivity1"
    /\ {1, 2} \subseteq IdsOf("Resolved")

\* C29: a lifecycle never ends with its order row Cancelled while a position
\* opened by its entry orders is open on the exchange.
C29_NoCancelledOpenPosition ==
    \A i \in Instances :
        (/\ children[i].status = "Completed"
         /\ children[i].result = "Entry timed out"
         /\ RowStatus(i) = "Cancelled")
        => position[children[i].signal.CoinSymbol] = 0

\* C30: when a lifecycle instance has reached a terminal state, no order it
\* placed (entry limit, take-profit or stop-loss) is still open on the
\* exchange.
C30_NoOrderLeftOpen ==
    \A i \in Instances :
        children[i].pc = "Done" =>
            \A o \in BagToSet(orders) : o.owner # i

\* C31: with every monitoring activity succeeding, a lifecycle that entered
\* the monitoring loop resolves an exit type at or before its fourth wake, and
\* at the latest at the first wake 12 hours or more after the fill, whatever
\* the fill time, the z-scores and the position: no wake fails the instance.
C31_MonitoringTerminates ==
    \A i \in Instances :
        LET c == children[i]
        IN  /\ c.wakes <= 4
            /\ AtWake(i) =>
                  \A o \in MonitorStatusActivity(c, i, Env) : ~o.raised =>
                      LET after == OrchResume(c, o.ret, clock)
                      IN  /\ after.status = "Running"
                          /\ (c.wakes = 4 \/ clock - c.start_time >= 12 * 60)
                                => LeftLoop(after)
            /\ ("MonitorTimer" \in c.scheduled /\ c.status = "Failed")
                  => c.error = "ActivityFailed"

\* The wake of instance i in a world whose latest FourHour row is row.
WakeWith(i, row) ==
    {o \in MonitorStatusActivity(children[i], i, [Env EXCEPT !.fourHour = {row}]) :
        ~o.raised}

\* C32: a monitoring wake with the position open never fails the instance
\* because of z-score data: with no FourHour row the wake uses z = 0, and with
\* a row whose z-score is null the wake still resolves an exit type or
\* suspends until the next wake.
C32_ZscoreDataNeverFails ==
    \A i \in Instances :
        (AtWake(i) /\ position[children[i].signal.CoinSymbol] # 0) =>
            /\ \A o \in WakeWith(i, [exists |-> FALSE, null |-> FALSE, z |-> 0]) :
                  /\ o.ret.zscore = 0
                  /\ ~o.ret.z_null
                  /\ OrchResume(children[i], o.ret, clock).error # "TypeError"
            /\ \A o \in WakeWith(i, [exists |-> TRUE, null |-> TRUE, z |-> 0]) :
                  LET after == OrchResume(children[i], o.ret, clock)
                  IN  /\ after.error # "TypeError"
                      /\ \/ after.pc \in {"ClosePositionActivity", "MonitorTimer"}
                         \/ after.error = "ValueError"

====
